---- MODULE Spec2Model ----
(***************************************************************************)
(* MyContainer<T> (src/MyContainer.hpp) and its six snapshot iterators     *)
(* (src/Iterators/*.hpp).                                                  *)
(*                                                                         *)
(* An element of type T is a record [pages, title], after the Book type of *)
(* src/tests.cpp: operator< and operator> compare pages only, operator==   *)
(* compares both fields.  An int n is the element [pages |-> n,            *)
(* title |-> ""], for which the ordering and equality agree.               *)
(*                                                                         *)
(* Vectors are TLA+ sequences; the loops of the source keep their 0-based  *)
(* indices and read the vector through At.                                 *)
(***************************************************************************)
EXTENDS Integers, Sequences, FiniteSets

VARIABLES data, it, last, ret, hist, adds, deleted, sortPolicy, mo, sc

vars == <<data, it, last, ret, hist, adds, deleted, sortPolicy, mo, sc>>

----------------------------------------------------------------------------
(* Bounds of the model.  MaxValue: the ints 1..MaxValue are added and      *)
(* removed.  MaxAdds, MaxCalls: addElement calls in a behaviour of Spec,   *)
(* of SpecContainer.  MaxPages, MaxLen: page counts and length of the      *)
(* contents SpecTraverse builds its iterators from.  MaxIterLen: length of *)
(* the contents SpecIter walks over.  MaxAdvances: increments applied to   *)
(* one iterator.  MaxLoopLen: length of the contents whose MiddleOut and   *)
(* SideCross loops SpecMake runs iteration by iteration.                   *)

MaxValue == 2

MaxAdds == 3

MaxCalls == 5

MaxPages == 2

MaxLen == 4

MaxIterLen == 3

MaxAdvances == 5

MaxLoopLen == 5

----------------------------------------------------------------------------
(* Elements.                                                               *)

IntElem(n) == [pages |-> n, title |-> ""]

IntSeq(s) == [i \in DOMAIN s |-> IntElem(s[i])]

Values == {IntElem(n) : n \in 1..MaxValue}

Titles == {"", "b"}

Books == {[pages |-> p, title |-> t] : p \in 1..MaxPages, t \in Titles}

NoElement == [pages |-> 0, title |-> ""]

Less(a, b) == a.pages < b.pages

Greater(a, b) == a.pages > b.pages

Comp(c, a, b) == IF c = "less" THEN Less(a, b) ELSE Greater(a, b)

At(vec, i) == vec[i + 1]

SeqsUpTo(S, n) == UNION {[1..k -> S] : k \in 0..n}

Count(vec, e) == Cardinality({i \in DOMAIN vec : vec[i] = e})

----------------------------------------------------------------------------
(* MyContainer: addElement, removeElement.                                 *)

push_front(vec, value) == <<value>> \o vec

push_back(vec, value) == Append(vec, value)

RECURSIVE RemoveLoop(_, _, _, _)
RemoveLoop(vec, first, result, value) ==
    IF first = Len(vec) THEN [vec |-> vec, newEnd |-> result]
    ELSE IF At(vec, first) # value
         THEN RemoveLoop([vec EXCEPT ![result + 1] = At(vec, first)],
                         first + 1, result + 1, value)
         ELSE RemoveLoop(vec, first + 1, result, value)

RECURSIVE Find(_, _, _)
Find(vec, first, value) ==
    IF first = Len(vec) \/ At(vec, first) = value THEN first
    ELSE Find(vec, first + 1, value)

StdRemoveFirstOnly(vec, value) ==
    LET first == Find(vec, 0, value)
    IN  IF first = Len(vec) THEN [vec |-> vec, newEnd |-> first]
        ELSE [vec |-> SubSeq(vec, 1, first) \o SubSeq(vec, first + 2, Len(vec)) \o <<value>>,
              newEnd |-> Len(vec) - 1]

StdRemove(vec, value) ==
    LET first == Find(vec, 0, value)
    IN  IF first = Len(vec) THEN [vec |-> vec, newEnd |-> first]
        ELSE RemoveLoop(vec, first + 1, first, value)

EraseNothing(r) == r.vec

Erase(r) == SubSeq(r.vec, 1, r.newEnd)

Call(op, arg, kind, thrown) ==
    [op |-> op, arg |-> arg, kind |-> kind, thrown |-> thrown]

Iterator(kind, view, idx) == [kind |-> kind, view |-> view, idx |-> idx]

NoIterator == Iterator("none", <<>>, 0)

(* What the last call returned: an iterator (increment), an element        *)
(* (dereference) or the characters written to the stream (operator<<).     *)
Return(iter, elem, text) == [iter |-> iter, elem |-> elem, text |-> text]

NoReturn == Return(NoIterator, NoElement, <<>>)

(* Where the iterator in hand came from and how often it was incremented.  *)
History(from, advances) == [from |-> from, advances |-> advances]

NoHistory == History("none", 0)

AddElementAliased(value) ==
    /\ data' = push_back(data, value)
    /\ adds' = adds + 1
    /\ last' = Call("addElement", value, "", "none")
    /\ it' = IF it.kind = "none" THEN it ELSE [it EXCEPT !.view = data']
    /\ ret' = NoReturn
    /\ UNCHANGED <<hist, deleted, sortPolicy, mo, sc>>

AddElement(value) ==
    /\ data' = push_back(data, value)
    /\ adds' = adds + 1
    /\ last' = Call("addElement", value, "", "none")
    /\ ret' = NoReturn
    /\ UNCHANGED <<it, hist, deleted, sortPolicy, mo, sc>>

RemoveElementSilent(value) ==
    /\ data' = Erase(StdRemove(data, value))
    /\ last' = Call("removeElement", value, "", "none")
    /\ deleted' = deleted + Count(data, value)
    /\ ret' = NoReturn
    /\ UNCHANGED <<it, hist, adds, sortPolicy, mo, sc>>

RemoveElement(value) ==
    LET before == Len(data)
        after  == Erase(StdRemove(data, value))
    IN  /\ data' = after
        /\ last' = Call("removeElement", value, "",
                        IF Len(after) = before THEN "runtime_error" ELSE "none")
        /\ deleted' = deleted + Count(data, value)
        /\ ret' = NoReturn
        /\ UNCHANGED <<it, hist, adds, sortPolicy, mo, sc>>

----------------------------------------------------------------------------
(* std::sort and std::reverse as the builders call them.                   *)
(*                                                                         *)
(* std::sort promises a permutation ordered by the comparator and nothing  *)
(* about elements the comparator treats as equivalent.  A build fixes one  *)
(* deterministic sorting procedure; sortPolicy names the procedure of the  *)
(* build: "stable" is an insertion sort that puts an element after its     *)
(* equivalents, "unstable" one that puts it before them.                   *)

SortPolicies == {"stable", "unstable"}

Stops(policy, c, x, y) ==
    IF policy = "stable" THEN ~Comp(c, x, y) ELSE Comp(c, y, x)

RECURSIVE Insert(_, _, _, _)
Insert(sorted, x, c, policy) ==
    IF sorted = <<>> THEN <<x>>
    ELSE LET y == sorted[Len(sorted)]
         IN  IF Stops(policy, c, x, y) THEN Append(sorted, x)
             ELSE Append(Insert(SubSeq(sorted, 1, Len(sorted) - 1), x, c, policy), y)

RECURSIVE StdSort(_, _, _)
StdSort(vec, c, policy) ==
    IF vec = <<>> THEN <<>>
    ELSE Insert(StdSort(SubSeq(vec, 1, Len(vec) - 1), c, policy),
                vec[Len(vec)], c, policy)

RECURSIVE ReverseLoop(_, _, _)
ReverseLoop(vec, first, lst) ==
    IF first >= lst THEN vec
    ELSE ReverseLoop([vec EXCEPT ![first + 1] = At(vec, lst),
                                 ![lst + 1] = At(vec, first)],
                     first + 1, lst - 1)

StdReverseOffByOne(vec) == ReverseLoop(vec, 0, Len(vec) - 2)

StdReverse(vec) == ReverseLoop(vec, 0, Len(vec) - 1)

----------------------------------------------------------------------------
(* The six builders: the sequence `make` hands to both iterators.          *)

OrderViewReversed(base) == StdReverse(base)

OrderView(base) == base

ReverseView(base) == StdReverse(base)

AscendingViewGreater(base, policy) == StdSort(base, "greater", policy)

AscendingView(base, policy) == StdSort(base, "less", policy)

DescendingViewLess(base, policy) == StdSort(base, "less", policy)

DescendingView(base, policy) == StdSort(base, "greater", policy)

(* j is a std::size_t: decrementing 0 wraps to the largest value of the     *)
(* type.  SIZE_MAX stands for that value; it is the largest integer TLC     *)
(* handles.                                                                *)
SIZE_MAX == 2147483647

Decrement(j) == IF j = 0 THEN SIZE_MAX ELSE j - 1

RECURSIVE SideCrossLoopStrict(_, _, _, _, _)
SideCrossLoopStrict(sorted, seq, i, j, take_low) ==
    IF sorted # <<>> /\ i < j
    THEN IF take_low
         THEN SideCrossLoopStrict(sorted, push_back(seq, At(sorted, i)), i + 1, j, ~take_low)
         ELSE SideCrossLoopStrict(sorted, push_back(seq, At(sorted, j)), i, Decrement(j), ~take_low)
    ELSE seq

RECURSIVE SideCrossLoop(_, _, _, _, _)
SideCrossLoop(sorted, seq, i, j, take_low) ==
    IF sorted # <<>> /\ i <= j
    THEN IF take_low
         THEN SideCrossLoop(sorted, push_back(seq, At(sorted, i)), i + 1, j, ~take_low)
         ELSE SideCrossLoop(sorted, push_back(seq, At(sorted, j)), i, Decrement(j), ~take_low)
    ELSE seq

SideCrossViewHighFirst(base, policy) ==
    LET sorted == StdSort(base, "less", policy)
        j == IF Len(sorted) # 0 THEN Len(sorted) - 1 ELSE 0
    IN  SideCrossLoop(sorted, <<>>, 0, j, FALSE)

SideCrossView(base, policy) ==
    LET sorted == StdSort(base, "less", policy)
        j == IF Len(sorted) # 0 THEN Len(sorted) - 1 ELSE 0
    IN  SideCrossLoop(sorted, <<>>, 0, j, TRUE)

NextTakeLeftStuck(n, left, right, take_left) ==
    IF left < 0 THEN TRUE ELSE IF right >= n THEN TRUE ELSE ~take_left

NextTakeLeft(n, left, right, take_left) ==
    IF left < 0 THEN FALSE
    ELSE IF right >= n THEN TRUE
    ELSE ~take_left

RECURSIVE MiddleOutLoop(_, _, _, _, _)
MiddleOutLoop(base, seq, left, right, take_left) ==
    LET n == Len(base)
    IN  IF Len(seq) < n
        THEN IF take_left /\ left >= 0
             THEN MiddleOutLoop(base, push_back(seq, At(base, left)), left - 1, right,
                                NextTakeLeft(n, left - 1, right, take_left))
             ELSE IF ~take_left /\ right < n
             THEN MiddleOutLoop(base, push_back(seq, At(base, right)), left, right + 1,
                                NextTakeLeft(n, left, right + 1, take_left))
             ELSE MiddleOutLoop(base, seq, left, right,
                                NextTakeLeft(n, left, right, take_left))
        ELSE seq

MiddleOutViewUpperMiddle(base) ==
    LET n == Len(base)
        mid == n \div 2
    IN  IF n = 0 THEN <<>>
        ELSE MiddleOutLoop(base, <<At(base, mid)>>, mid - 1, mid + 1, TRUE)

MiddleOutView(base) ==
    LET n == Len(base)
        mid == (n - 1) \div 2
    IN  IF n = 0 THEN <<>>
        ELSE MiddleOutLoop(base, <<At(base, mid)>>, mid - 1, mid + 1, TRUE)

Kinds == {"order", "reverse", "ascending", "descending", "side_cross", "middle_out"}

MakeView(kind, base, policy) ==
    CASE kind = "order"      -> OrderView(base)
      [] kind = "reverse"    -> ReverseView(base)
      [] kind = "ascending"  -> AscendingView(base, policy)
      [] kind = "descending" -> DescendingView(base, policy)
      [] kind = "side_cross" -> SideCrossView(base, policy)
      [] kind = "middle_out" -> MiddleOutView(base)

MakeEndAtLast(kind, base, policy) ==
    LET seq == MakeView(kind, base, policy)
    IN  [first |-> Iterator(kind, seq, 0),
         second |-> Iterator(kind, seq, IF seq = <<>> THEN 0 ELSE Len(seq) - 1)]

Make(kind, base, policy) ==
    LET seq == MakeView(kind, base, policy)
    IN  [first |-> Iterator(kind, seq, 0), second |-> Iterator(kind, seq, Len(seq))]

Begin(kind) ==
    /\ it' = Make(kind, data, sortPolicy).first
    /\ last' = Call("begin", NoElement, kind, "none")
    /\ ret' = NoReturn
    /\ hist' = History("begin", 0)
    /\ UNCHANGED <<data, adds, deleted, sortPolicy, mo, sc>>

End(kind) ==
    /\ it' = Make(kind, data, sortPolicy).second
    /\ last' = Call("end", NoElement, kind, "none")
    /\ ret' = NoReturn
    /\ hist' = History("end", 0)
    /\ UNCHANGED <<data, adds, deleted, sortPolicy, mo, sc>>

----------------------------------------------------------------------------
(* The iterator operations, the same in all six classes: dereference,      *)
(* prefix and postfix increment, equality.                                 *)

VectorAtUnchecked(view, idx) ==
    IF idx < Len(view) THEN [thrown |-> "none", value |-> view[idx + 1]]
    ELSE [thrown |-> "none", value |-> NoElement]

(* std::vector::at: the element, or std::out_of_range when idx >= size.    *)
VectorAt(view, idx) ==
    IF idx < Len(view) THEN [thrown |-> "none", value |-> view[idx + 1]]
    ELSE [thrown |-> "out_of_range", value |-> NoElement]

(* ++idx on a std::size_t.                                                 *)
Increment(idx) == IF idx = SIZE_MAX THEN 0 ELSE idx + 1

PrefixIncrement(iter) == [iter EXCEPT !.idx = Increment(iter.idx)]

PostfixIncrementReturnsAdvanced(iter) ==
    [self |-> PrefixIncrement(iter), result |-> PrefixIncrement(iter)]

PostfixIncrement(iter) ==
    LET tmp == iter
    IN  [self |-> PrefixIncrement(iter), result |-> tmp]

(* operator== of std::vector: same size and equal elements pairwise.       *)
VectorEquals(a, b) ==
    /\ Len(a) = Len(b)
    /\ \A i \in 1..Len(a) : a[i] = b[i]

EqualsViewOnly(a, b) == VectorEquals(a.view, b.view)

EqualsIdxAndSize(a, b) == a.idx = b.idx /\ Len(a.view) = Len(b.view)

EqualsIdxOnly(a, b) == a.idx = b.idx

Equals(a, b) == a.idx = b.idx /\ VectorEquals(a.view, b.view)

NotEquals(a, b) == ~Equals(a, b)

Dereference ==
    /\ it.kind # "none"
    /\ LET r == VectorAt(it.view, it.idx)
       IN  /\ last' = Call("dereference", NoElement, it.kind, r.thrown)
           /\ ret' = Return(NoIterator, r.value, <<>>)
    /\ UNCHANGED <<data, it, hist, adds, deleted, sortPolicy, mo, sc>>

Advance ==
    /\ it.kind # "none"
    /\ it' = PrefixIncrement(it)
    /\ last' = Call("prefix_increment", NoElement, it.kind, "none")
    /\ ret' = Return(it', NoElement, <<>>)
    /\ hist' = History(hist.from, hist.advances + 1)
    /\ UNCHANGED <<data, adds, deleted, sortPolicy, mo, sc>>

AdvancePostfix ==
    /\ it.kind # "none"
    /\ LET r == PostfixIncrement(it)
       IN  /\ it' = r.self
           /\ ret' = Return(r.result, NoElement, <<>>)
    /\ last' = Call("postfix_increment", NoElement, it.kind, "none")
    /\ hist' = History(hist.from, hist.advances + 1)
    /\ UNCHANGED <<data, adds, deleted, sortPolicy, mo, sc>>

----------------------------------------------------------------------------
(* The loops of MiddleOutOrder::make and SideCrossOrder::make, one         *)
(* iteration per step.  mo and sc hold the locals of the two functions;    *)
(* reads is the set of indices the last step read the vector at, iters the *)
(* number of iterations run.                                               *)

(* vec[idx] without a bound check: outside the vector any value comes      *)
(* back.                                                                   *)
Read(vec, idx) ==
    IF idx >= 0 /\ idx < Len(vec) THEN {At(vec, idx)} ELSE Values \cup {NoElement}

MiddleOutState(pc, base, seq, mid, left, right, take_left, appended, reads, iters) ==
    [pc |-> pc, base |-> base, seq |-> seq, mid |-> mid, left |-> left,
     right |-> right, take_left |-> take_left, appended |-> appended,
     reads |-> reads, iters |-> iters]

MiddleOutIdle == MiddleOutState("idle", <<>>, <<>>, 0, 0, 0, FALSE, FALSE, {}, 0)

MiddleOutEnter ==
    /\ mo.pc = "idle"
    /\ sc.pc # "loop"
    /\ LET base == data
           n == Len(base)
           mid == (n - 1) \div 2
       IN  IF n = 0
           THEN mo' = MiddleOutState("done", base, <<>>, 0, 0, 0, FALSE, FALSE, {}, 0)
           ELSE \E x \in Read(base, mid) :
                    mo' = MiddleOutState("loop", base, push_back(<<>>, x), mid,
                                         mid - 1, mid + 1, TRUE, TRUE, {mid}, 0)
    /\ UNCHANGED <<data, it, last, ret, hist, adds, deleted, sortPolicy, sc>>

MiddleOutIterate ==
    /\ mo.pc = "loop"
    /\ Len(mo.seq) < Len(mo.base)
    /\ LET n == Len(mo.base)
           fromLeft == mo.take_left /\ mo.left >= 0
           fromRight == ~fromLeft /\ ~mo.take_left /\ mo.right < n
           left == IF fromLeft THEN mo.left - 1 ELSE mo.left
           right == IF fromRight THEN mo.right + 1 ELSE mo.right
           reads == IF fromLeft THEN {mo.left} ELSE IF fromRight THEN {mo.right} ELSE {}
           source == IF fromLeft THEN Read(mo.base, mo.left)
                     ELSE IF fromRight THEN Read(mo.base, mo.right)
                     ELSE {NoElement}
       IN  \E x \in source :
               mo' = MiddleOutState("loop", mo.base,
                                    IF fromLeft \/ fromRight THEN push_back(mo.seq, x)
                                    ELSE mo.seq,
                                    mo.mid, left, right,
                                    NextTakeLeft(n, left, right, mo.take_left),
                                    fromLeft \/ fromRight, reads, mo.iters + 1)
    /\ UNCHANGED <<data, it, last, ret, hist, adds, deleted, sortPolicy, sc>>

MiddleOutReturn ==
    /\ mo.pc = "loop"
    /\ ~(Len(mo.seq) < Len(mo.base))
    /\ mo' = [mo EXCEPT !.pc = "done", !.reads = {}]
    /\ UNCHANGED <<data, it, last, ret, hist, adds, deleted, sortPolicy, sc>>

SideCrossState(pc, sorted, seq, i, j, take_low, reads, iters) ==
    [pc |-> pc, sorted |-> sorted, seq |-> seq, i |-> i, j |-> j,
     take_low |-> take_low, reads |-> reads, iters |-> iters]

SideCrossIdle == SideCrossState("idle", <<>>, <<>>, 0, 0, FALSE, {}, 0)

SideCrossStartHigh(sorted) ==
    SideCrossState("loop", sorted, <<>>, 0,
                   IF Len(sorted) # 0 THEN Len(sorted) - 1 ELSE 0, FALSE, {}, 0)

SideCrossStart(sorted) ==
    SideCrossState("loop", sorted, <<>>, 0,
                   IF Len(sorted) # 0 THEN Len(sorted) - 1 ELSE 0, TRUE, {}, 0)

SideCrossEnter ==
    /\ sc.pc = "idle"
    /\ mo.pc # "loop"
    /\ sc' = SideCrossStart(StdSort(data, "less", sortPolicy))
    /\ UNCHANGED <<data, it, last, ret, hist, adds, deleted, sortPolicy, mo>>

SideCrossIterate ==
    /\ sc.pc = "loop"
    /\ sc.sorted # <<>> /\ sc.i <= sc.j
    /\ IF sc.take_low
       THEN \E x \in Read(sc.sorted, sc.i) :
                sc' = SideCrossState("loop", sc.sorted, push_back(sc.seq, x),
                                     Increment(sc.i), sc.j, ~sc.take_low,
                                     {sc.i}, sc.iters + 1)
       ELSE \E x \in Read(sc.sorted, sc.j) :
                sc' = SideCrossState("loop", sc.sorted, push_back(sc.seq, x),
                                     sc.i, Decrement(sc.j), ~sc.take_low,
                                     {sc.j}, sc.iters + 1)
    /\ UNCHANGED <<data, it, last, ret, hist, adds, deleted, sortPolicy, mo>>

SideCrossReturn ==
    /\ sc.pc = "loop"
    /\ ~(sc.sorted # <<>> /\ sc.i <= sc.j)
    /\ sc' = [sc EXCEPT !.pc = "done", !.reads = {}]
    /\ UNCHANGED <<data, it, last, ret, hist, adds, deleted, sortPolicy, mo>>

----------------------------------------------------------------------------
(* operator<< and MyContainer::print.  The stream is a sequence of         *)
(* characters; an int is written in decimal, a Book as its title, a space  *)
(* and its pages in parentheses.                                           *)

Digit == <<"0", "1", "2", "3", "4", "5", "6", "7", "8", "9">>

RECURSIVE Decimal(_)
Decimal(n) ==
    IF n < 10 THEN <<Digit[n + 1]>>
    ELSE Append(Decimal(n \div 10), Digit[(n % 10) + 1])

IntText(n) == IF n < 0 THEN <<"-">> \o Decimal(0 - n) ELSE Decimal(n)

Text(e) ==
    IF e.title = "" THEN IntText(e.pages)
    ELSE <<e.title, " ", "(">> \o IntText(e.pages) \o <<")">>

RECURSIVE PrintLoopSeparated(_, _, _)
PrintLoopSeparated(os, vec, i) ==
    IF i = Len(vec) THEN os
    ELSE PrintLoopSeparated((os \o (IF i = 0 THEN <<>> ELSE <<" ">>)) \o Text(At(vec, i)),
                            vec, i + 1)

RECURSIVE PrintLoop(_, _, _)
PrintLoop(os, vec, i) ==
    IF i = Len(vec) THEN os
    ELSE PrintLoop((os \o Text(At(vec, i))) \o <<" ">>, vec, i + 1)

print(os, vec) == PrintLoop(os, vec, 0) \o <<"\n">>

StreamInsert ==
    /\ ret' = Return(NoIterator, NoElement, print(<<>>, data))
    /\ last' = Call("print", NoElement, "", "none")
    /\ UNCHANGED <<data, it, hist, adds, deleted, sortPolicy, mo, sc>>

----------------------------------------------------------------------------
(* Specifications.                                                         *)

NoCall == Call("init", NoElement, "", "none")

Init ==
    /\ data = <<>>
    /\ it = NoIterator
    /\ last = NoCall
    /\ ret = NoReturn
    /\ hist = NoHistory
    /\ mo = MiddleOutIdle
    /\ sc = SideCrossIdle
    /\ adds = 0
    /\ deleted = 0
    /\ sortPolicy \in SortPolicies

Next ==
    \/ \E value \in Values : adds < MaxAdds /\ AddElement(value)
    \/ \E value \in Values : RemoveElement(value)
    \/ \E kind \in Kinds : Begin(kind)
    \/ \E kind \in Kinds : End(kind)

Spec == Init /\ [][Next]_vars

ContainerInit ==
    /\ Init
    /\ sortPolicy = "stable"

ContainerNext ==
    \/ \E value \in Values : adds < MaxCalls /\ AddElement(value)
    \/ \E value \in Values : RemoveElement(value)
    \/ StreamInsert

SpecContainer == ContainerInit /\ [][ContainerNext]_vars

TraverseInit ==
    /\ data \in SeqsUpTo(Books, MaxLen)
    /\ it = NoIterator
    /\ last = NoCall
    /\ ret = NoReturn
    /\ hist = NoHistory
    /\ mo = MiddleOutIdle
    /\ sc = SideCrossIdle
    /\ adds = Len(data)
    /\ deleted = 0
    /\ sortPolicy \in SortPolicies

(* begin_X and end_X depend on the contents only, and SpecTraverse never   *)
(* changes the contents: one call per behaviour reaches every state that   *)
(* any number of calls reaches.                                            *)
TraverseNext ==
    \/ \E kind \in Kinds : it = NoIterator /\ Begin(kind)
    \/ \E kind \in Kinds : it = NoIterator /\ End(kind)

SpecTraverse == TraverseInit /\ [][TraverseNext]_vars

IterInit ==
    /\ data \in SeqsUpTo(Values, MaxIterLen)
    /\ it = NoIterator
    /\ last = NoCall
    /\ ret = NoReturn
    /\ hist = NoHistory
    /\ mo = MiddleOutIdle
    /\ sc = SideCrossIdle
    /\ adds = Len(data)
    /\ deleted = 0
    /\ sortPolicy \in SortPolicies

IterNext ==
    \/ \E kind \in Kinds : Begin(kind)
    \/ \E kind \in Kinds : End(kind)
    \/ hist.advances < MaxAdvances /\ Advance
    \/ hist.advances < MaxAdvances /\ AdvancePostfix
    \/ Dereference

SpecIter == IterInit /\ [][IterNext]_vars

MakeInit ==
    /\ data \in SeqsUpTo(Values, MaxLoopLen)
    /\ it = NoIterator
    /\ last = NoCall
    /\ ret = NoReturn
    /\ hist = NoHistory
    /\ mo = MiddleOutIdle
    /\ sc = SideCrossIdle
    /\ adds = Len(data)
    /\ deleted = 0
    /\ sortPolicy \in SortPolicies

MakeNext ==
    \/ MiddleOutEnter
    \/ MiddleOutIterate
    \/ MiddleOutReturn
    \/ SideCrossEnter
    \/ SideCrossIterate
    \/ SideCrossReturn

(* The program is single-threaded: a make that was entered runs its loop   *)
(* to the return.                                                          *)
SpecMake ==
    /\ MakeInit
    /\ [][MakeNext]_vars
    /\ WF_vars(MiddleOutIterate)
    /\ WF_vars(MiddleOutReturn)
    /\ WF_vars(SideCrossIterate)
    /\ WF_vars(SideCrossReturn)

----------------------------------------------------------------------------
(* Vocabulary of the properties.                                           *)

Mutators == {"addElement", "removeElement"}

Filter(vec, value) == SelectSeq(vec, LAMBDA e : e # value)

Range(vec) == {vec[i] : i \in DOMAIN vec}

IsPermutation(a, b) ==
    /\ Len(a) = Len(b)
    /\ \A e \in Range(a) \cup Range(b) : Count(a, e) = Count(b, e)

RECURSIVE IsSubsequence(_, _)
IsSubsequence(a, b) ==
    IF a = <<>> THEN TRUE
    ELSE IF b = <<>> THEN FALSE
    ELSE IF Head(a) = Head(b) THEN IsSubsequence(Tail(a), Tail(b))
    ELSE IsSubsequence(a, Tail(b))

IsAscending(vec) == \A i \in 1..(Len(vec) - 1) : ~Less(vec[i + 1], vec[i])

IsDescending(vec) == \A i \in 1..(Len(vec) - 1) : ~Greater(vec[i + 1], vec[i])

WithPages(vec, p) == SelectSeq(vec, LAMBDA e : e.pages = p)

Stale == it.view # MakeView(it.kind, data, sortPolicy)

----------------------------------------------------------------------------
(* C1: a call of addElement or removeElement leaves an iterator obtained   *)
(* before it exactly as it was: same kind, same materialized sequence,     *)
(* same cursor.                                                            *)
C1_MutationKeepsIterator ==
    [][(last'.op \in Mutators \/ data' # data) => it' = it]_vars

C1_Witness ==
    /\ it.kind # "none"
    /\ it.view # <<>>
    /\ last.op \in Mutators
    /\ Stale

C3_RemoveAbsentThrows ==
    [][(last'.op = "removeElement" /\ Count(data, last'.arg) = 0)
           => /\ last'.thrown = "runtime_error"
              /\ data' = data
              /\ Len(data') = Len(data)]_vars

C3_Witness ==
    /\ last.op = "removeElement"
    /\ last.thrown = "runtime_error"
    /\ data # <<>>

(* C4: size() is the number of addElement calls minus the number of        *)
(* elements the removeElement calls deleted.                               *)
C4_SizeIsAddsMinusDeleted == Len(data) = adds - deleted

C4_Witness ==
    /\ adds >= 3
    /\ deleted >= 2
    /\ data # <<>>
    /\ last.thrown = "runtime_error"

(* C5: addElement(value) does not throw and leaves the contents as before  *)
(* followed by value; every other call leaves a subsequence of the         *)
(* contents, so the stored order is the order of appending.                *)
C5_AddAppends ==
    [][/\ last'.op = "addElement"
            => (data' = data \o <<last'.arg>> /\ last'.thrown = "none")
       /\ last'.op # "addElement" => IsSubsequence(data', data)]_vars

C5_Witness ==
    /\ last.op = "addElement"
    /\ Len(data) >= 3
    /\ data[1] # data[2]
    /\ deleted >= 1

(* C6: the MiddleOut sequence of b[0..n-1] starts with b[(n-1) div 2],     *)
(* then takes left and right neighbours of the start alternately, left     *)
(* first, and the rest of the longer side in outward order; it works on    *)
(* insertion order.                                                        *)
MiddleOutExpected(b) ==
    LET n == Len(b)
        mid == (n - 1) \div 2
    IN  [q \in 1..n |->
            LET p == q - 1
            IN  IF p = 0 THEN At(b, mid)
                ELSE IF p <= 2 * mid
                     THEN IF p % 2 = 1 THEN At(b, mid - (p + 1) \div 2)
                          ELSE At(b, mid + p \div 2)
                     ELSE At(b, p)]

C6_MiddleOut ==
    /\ it.kind = "middle_out" => it.view = MiddleOutExpected(data)
    /\ MiddleOutView(IntSeq(<<7, 15, 6, 1, 2>>)) = IntSeq(<<6, 15, 1, 7, 2>>)
    /\ MiddleOutView(IntSeq(<<1, 2, 3, 4>>)) = IntSeq(<<2, 1, 3, 4>>)

C6_Witness ==
    /\ it.kind = "middle_out"
    /\ Len(it.view) = 4
    /\ Cardinality(Range(data)) = 4
    /\ ~IsAscending(data)

(* C7: with s the ascending-sorted contents, position 2k of the SideCross  *)
(* sequence holds s[k] and position 2k+1 holds s[n-1-k]; for odd n the     *)
(* middle of s comes last.                                                 *)
Unzip(v) ==
    LET n == Len(v)
    IN  [q \in 1..n |->
            LET m == q - 1
            IN  IF 2 * m < n THEN At(v, 2 * m) ELSE At(v, 2 * (n - 1 - m) + 1)]

C7_SideCross ==
    /\ it.kind = "side_cross"
          => /\ IsPermutation(Unzip(it.view), data)
             /\ IsAscending(Unzip(it.view))
             /\ Len(it.view) % 2 = 1
                   => it.view[Len(it.view)] = Unzip(it.view)[(Len(it.view) + 1) \div 2]
    /\ SideCrossView(IntSeq(<<7, 15, 6, 1, 2>>), sortPolicy) = IntSeq(<<1, 15, 2, 7, 6>>)
    /\ SideCrossView(IntSeq(<<1, 2, 3, 4>>), sortPolicy) = IntSeq(<<1, 4, 2, 3>>)

C7_Witness ==
    /\ it.kind = "side_cross"
    /\ Len(it.view) = 3
    /\ ~IsAscending(data)
    /\ Cardinality(Range(it.view)) = 3
    /\ Less(it.view[1], it.view[2])

(* C8: the Ascending sequence is a permutation of the contents (duplicates *)
(* kept) in which no element is less than its predecessor.                 *)
C8_Ascending ==
    /\ it.kind = "ascending" => (IsPermutation(it.view, data) /\ IsAscending(it.view))
    /\ AscendingView(IntSeq(<<10, -20, 190, 190, 5>>), sortPolicy)
          = IntSeq(<<-20, 5, 10, 190, 190>>)

C8_Witness ==
    /\ it.kind = "ascending"
    /\ Len(it.view) >= 3
    /\ ~IsAscending(data)
    /\ \E i \in 1..(Len(data) - 1) : data[i] = data[i + 1]

(* C9: the Descending sequence is a permutation of the contents            *)
(* (duplicates kept) in which no element is greater than its predecessor.  *)
C9_Descending ==
    /\ it.kind = "descending" => (IsPermutation(it.view, data) /\ IsDescending(it.view))
    /\ DescendingView(IntSeq(<<10, -20, 190, 190, 5>>), sortPolicy)
          = IntSeq(<<190, 190, 10, 5, -20>>)

C9_Witness ==
    /\ it.kind = "descending"
    /\ Len(it.view) >= 3
    /\ ~IsDescending(data)
    /\ \E i \in 1..(Len(data) - 1) : data[i] = data[i + 1]

(* C10: the Ascending and Descending builders are stable: elements the     *)
(* ordering treats as equal keep their relative insertion order.           *)
C10_StableSort ==
    it.kind \in {"ascending", "descending"}
        => \A e \in Range(data) : WithPages(it.view, e.pages) = WithPages(data, e.pages)

(* C11: the Insertion-order sequence is a copy of the contents: same       *)
(* length, and position i holds the i-th stored element.                   *)
C11_OrderIsCopy ==
    /\ it.kind = "order"
          => /\ Len(it.view) = Len(data)
             /\ \A i \in 0..(Len(data) - 1) : At(it.view, i) = At(data, i)
    /\ OrderView(IntSeq(<<7, 15, 6, 1, 2>>)) = IntSeq(<<7, 15, 6, 1, 2>>)

C11_Witness ==
    /\ it.kind = "order"
    /\ Len(it.view) >= 3
    /\ it.view[1] # it.view[Len(it.view)]
    /\ ~IsAscending(data)

(* C12: position i of the Reverse sequence of b[0..n-1] holds b[n-1-i].    *)
C12_ReverseIsReversed ==
    /\ it.kind = "reverse"
          => /\ Len(it.view) = Len(data)
             /\ \A i \in 0..(Len(data) - 1) :
                    At(it.view, i) = At(data, Len(data) - 1 - i)
    /\ ReverseView(IntSeq(<<7, 15, 6, 1, 2>>)) = IntSeq(<<2, 1, 6, 15, 7>>)

C12_Witness ==
    /\ it.kind = "reverse"
    /\ Len(it.view) >= 3
    /\ it.view # data

(* C13: for each traversal kind, begin_X() == end_X() exactly when the     *)
(* collection is empty.                                                    *)
C13_BeginIsEndIffEmpty ==
    it.kind # "none"
        => LET pair == Make(it.kind, data, sortPolicy)
               b == IF hist.from = "begin" THEN it ELSE pair.first
               e == IF hist.from = "end" THEN it ELSE pair.second
           IN  /\ Equals(b, e) <=> data = <<>>
               /\ NotEquals(b, e) <=> data # <<>>

C13_Witness ==
    /\ it.kind = "middle_out"
    /\ hist.from = "begin"
    /\ data = <<>>

(* C20: for each traversal kind the built sequence is a permutation of the *)
(* contents: size() elements, every value as often as in the collection;   *)
(* building it leaves the contents unchanged.                              *)
C20_BuildIsPermutation ==
    [][last'.op \in {"begin", "end"}
          => /\ data' = data
             /\ Len(it'.view) = Len(data)
             /\ IsPermutation(it'.view, data)]_vars

C20_Witness ==
    /\ it.kind = "side_cross"
    /\ Len(it.view) = 3
    /\ Cardinality(Range(data)) = 2

----------------------------------------------------------------------------
(* Properties of the iterator operations.                                  *)

IteratorOps == {"dereference", "prefix_increment", "postfix_increment"}

(* C14: on an unchanged collection of size n the iterator from begin_X()   *)
(* equals end_X() after exactly n increments and differs from it, and can  *)
(* be dereferenced, after every smaller number of increments.              *)
C14_ExactlySizeAdvances ==
    hist.from = "begin"
        => LET e == Make(it.kind, data, sortPolicy).second
               n == Len(data)
           IN  /\ hist.advances = n => Equals(it, e)
               /\ hist.advances < n
                     => /\ NotEquals(it, e)
                        /\ VectorAt(it.view, it.idx).thrown = "none"

C14_Witness ==
    /\ hist.from = "begin"
    /\ it.kind = "side_cross"
    /\ Len(data) = 3
    /\ hist.advances = 3
    /\ last.op = "prefix_increment"

(* C15: a dereference returns the element at the cursor exactly when       *)
(* cursor < length and throws std::out_of_range otherwise; once the cursor *)
(* is at or beyond length no operation on the iterator brings it back.     *)
C15_DereferenceGuard ==
    [][/\ last'.op = "dereference"
            => IF it.idx < Len(it.view)
               THEN last'.thrown = "none" /\ ret'.elem = At(it.view, it.idx)
               ELSE last'.thrown = "out_of_range"
       /\ (it.kind # "none" /\ it.idx >= Len(it.view) /\ last'.op \in IteratorOps)
            => (it'.idx >= Len(it'.view) /\ VectorAt(it'.view, it'.idx).thrown = "out_of_range")]_vars

C15_Witness ==
    /\ last.op = "dereference"
    /\ last.thrown = "out_of_range"
    /\ it.view # <<>>
    /\ it.idx > Len(it.view)

(* C16: the cursor of every iterator lies in [0, length], whatever         *)
(* increments were applied to it.                                          *)
C16_CursorWithinLength ==
    it.kind # "none" => (0 <= it.idx /\ it.idx <= Len(it.view))

(* C17: two iterators of one kind are equal exactly when their cursors are *)
(* equal and their sequences are equal element by element; operator!= is   *)
(* the negation.  The iterator in hand is compared with a fresh begin and  *)
(* a fresh end of its kind.                                                *)
SameSequence(a, b) ==
    /\ Len(a) = Len(b)
    /\ ~\E i \in DOMAIN a : a[i] # b[i]

C17_EqualityIsCursorAndSequence ==
    it.kind # "none"
        => LET pair == Make(it.kind, data, sortPolicy)
           IN  \A other \in {pair.first, pair.second} :
                   /\ Equals(it, other) <=> (it.idx = other.idx /\ SameSequence(it.view, other.view))
                   /\ Equals(other, it) <=> Equals(it, other)
                   /\ NotEquals(it, other) <=> ~Equals(it, other)
                   /\ (it.idx = other.idx /\ ~SameSequence(it.view, other.view))
                         => NotEquals(it, other)

C17_Witness ==
    /\ hist.from = "begin"
    /\ it.view # <<>>
    /\ Len(it.view) = Len(data)
    /\ Stale

(* C18: postfix increment returns the iterator as it was before the call   *)
(* and leaves the iterator where one prefix increment leaves it: cursor    *)
(* plus one, same sequence; prefix increment returns the iterator itself.  *)
C18_PostfixReturnsPrior ==
    [][/\ last'.op = "postfix_increment"
            => /\ ret'.iter = it
               /\ it'.idx = it.idx + 1
               /\ it'.view = it.view
               /\ it'.kind = it.kind
               /\ it' = PrefixIncrement(it)
       /\ last'.op = "prefix_increment"
            => /\ ret'.iter = it'
               /\ it'.idx = it.idx + 1
               /\ it'.view = it.view
               /\ it'.kind = it.kind]_vars

C18_Witness ==
    /\ last.op = "postfix_increment"
    /\ ret.iter.idx = 0
    /\ it.idx = 1
    /\ Len(it.view) >= 2
    /\ ret.iter.view = it.view

----------------------------------------------------------------------------
(* C19: operator<< writes each element's text followed by exactly one      *)
(* space, in insertion order, then exactly one newline (the newline alone  *)
(* for an empty collection), and leaves the collection unchanged.          *)
RECURSIVE Offset(_, _)
Offset(vec, i) ==
    IF i = 0 THEN 0 ELSE Offset(vec, i - 1) + Len(Text(vec[i])) + 1

Occurrences(text, ch) == Cardinality({k \in DOMAIN text : text[k] = ch})

Rendered(text, vec) ==
    /\ Len(text) = Offset(vec, Len(vec)) + 1
    /\ text[Len(text)] = "\n"
    /\ Occurrences(text, "\n") = 1
    /\ \A i \in DOMAIN vec :
          /\ SubSeq(text, Offset(vec, i - 1) + 1, Offset(vec, i) - 1) = Text(vec[i])
          /\ text[Offset(vec, i)] = " "
    /\ (\A i \in DOMAIN vec : vec[i].title = "") => Occurrences(text, " ") = Len(vec)

RenderExamples ==
    /\ print(<<>>, IntSeq(<<42, 17>>)) = <<"4", "2", " ", "1", "7", " ", "\n">>
    /\ print(<<>>, <<>>) = <<"\n">>
    /\ print(<<>>, IntSeq(<<-20, 190>>)) = <<"-", "2", "0", " ", "1", "9", "0", " ", "\n">>

C19_Render ==
    [][last'.op = "print"
          => /\ data' = data
             /\ Rendered(ret'.text, data)
             /\ RenderExamples]_vars

C19_Witness ==
    /\ last.op = "print"
    /\ Len(data) = 2
    /\ data[1] # data[2]
    /\ ret.text = (Text(data[1]) \o <<" ">>) \o (Text(data[2]) \o <<" ", "\n">>)

----------------------------------------------------------------------------
(* C21: begin_X() and end_X() each build their own snapshot.  When the     *)
(* collection was mutated after begin_X() so that the sequence of a later  *)
(* end_X() differs, the begin iterator is unequal to that end iterator     *)
(* after any number of increments, also at the end of its own sequence.    *)
RECURSIVE Advanced(_, _)
Advanced(iter, k) ==
    IF k = 0 THEN iter ELSE Advanced(PrefixIncrement(iter), k - 1)

C21_StaleBeginNeverMeetsEnd ==
    hist.from = "begin"
        => LET e == Make(it.kind, data, sortPolicy).second
           IN  ~SameSequence(it.view, e.view)
                  => /\ \A k \in 0..(MaxAdvances + Len(it.view)) :
                            NotEquals(Advanced(it, k), e)
                     /\ NotEquals(Advanced(it, Len(it.view)), e)
                     /\ VectorAt(it.view, Advanced(it, Len(it.view)).idx).thrown
                            = "out_of_range"

C21_Witness ==
    /\ hist.from = "begin"
    /\ last.op = "addElement"
    /\ it.view # <<>>
    /\ Len(data) = Len(it.view) + 1
    /\ Stale


----------------------------------------------------------------------------
(* C22.  The loop of MiddleOutOrder::make ends for every n >= 1 with       *)
(* seq.size() == n: inside the loop left stays in -1..mid-1 and right in   *)
(* mid+1..n, every read of base is at an index in 0..n-1, an iteration     *)
(* that appended nothing is followed by one that appends, and a loop that  *)
(* was entered reaches the return.                                         *)
C22_MiddleOutLoopTerminates ==
    /\ [](mo.pc = "loop"
            => /\ mo.left \in -1..(mo.mid - 1)
               /\ mo.right \in (mo.mid + 1)..Len(mo.base)
               /\ mo.reads \subseteq 0..(Len(mo.base) - 1))
    /\ [](mo.pc = "done" => Len(mo.seq) = Len(mo.base))
    /\ [][(mo.pc = "loop" /\ ~mo.appended /\ mo' # mo)
              => (mo'.pc = "loop" /\ mo'.appended)]_vars
    /\ ((mo.pc = "loop") ~> (mo.pc = "done"))

C22_Witness ==
    /\ mo.pc = "done"
    /\ Len(mo.base) = 2
    /\ Len(mo.seq) = 2
    /\ mo.iters = 2

(* C23.  In SideCrossOrder::make the cursors never wrap and never index    *)
(* outside the sorted copy: j is decremented only at a value of at least 1 *)
(* and after a low take, i never passes n, every read is at an index in    *)
(* 0..n-1, the loop returns after exactly n takes, and for the empty       *)
(* collection the body never runs.                                         *)
C23_SideCrossCursorsInRange ==
    /\ [](/\ sc.reads \subseteq 0..(Len(sc.sorted) - 1)
          /\ sc.i <= Len(sc.sorted)
          /\ sc.j <= Len(sc.sorted)
          /\ (sc.sorted = <<>> => sc.iters = 0)
          /\ (sc.pc = "done"
                 => sc.iters = Len(sc.sorted) /\ Len(sc.seq) = Len(sc.sorted)))
    /\ [][(sc.pc = "loop" /\ sc'.j # sc.j)
              => (sc.j >= 1 /\ sc'.j = sc.j - 1 /\ sc.i >= 1 /\ sc.iters >= 1)]_vars
    /\ ((sc.pc = "loop") ~> (sc.pc = "done"))

C23_Witness ==
    /\ sc.pc = "done"
    /\ Len(sc.sorted) = 2
    /\ sc.iters = 2
    /\ sc.j = 0

====
